---- MODULE Spec2Model ----
(***************************************************************************)
(* Maestro workflow engine (src/src/workflow.py): Workflow.run,            *)
(* create_or_restore_agents, _condition, _process_steps, process_event,    *)
(* together with the Step / agent run contract the engine drives.          *)
(*                                                                         *)
(* Python values are modelled as records so that values of different       *)
(* Python types can be compared: a str is [str |-> <<tokens>>], a dict is  *)
(* a record whose fields are its keys, and `k in d` is k \in DOMAIN d.     *)
(***************************************************************************)
EXTENDS Integers, Sequences, FiniteSets, TLC

\* ------------------------------------------------------------------ bounds
\* Longest step list of a workflow definition drawn by Init.
MaxSteps == 3
\* Cap on the agent calls of one run (jumps make traversals unbounded).
MaxCalls == 3
\* Cap on the iterations of the event loop of one run.
MaxTicks == 2
\* Cap on the messages a TokenMemory holds.
MaxMessages == 3

\* ------------------------------------------------------------------ values
Str(s) == [str |-> s]
IsStr(v) == "str" \in DOMAIN v
Hi == Str(<<"hi">>)
Go == Str(<<"go">>)
Done == Str(<<"DONE">>)
Lit == Str(<<"lit">>)
\* The empty string: falsy in Python.
Empty == Str(<<>>)
Truthy(v) == v # Empty

\* d.get(k, default)
Get(d, k, default) == IF k \in DOMAIN d THEN d[k] ELSE default
\* d after d[k] = v
Put(d, k, v) == [x \in DOMAIN d \cup {k} |-> IF x = k THEN v ELSE d[x]]

StepNames == <<"s1", "s2", "s3", "s4", "s5">>
AgentNames == <<"a1", "a2", "a3", "a4", "a5">>
AgentTags == <<"::1", "::2", "::3", "::4", "::5">>
AgentIndex(a) == CHOOSE i \in 1..Len(AgentNames) : AgentNames[i] = a

\* AgentFramework.BEEAI, the default of create_or_restore_agents.
BEEAI == "beeai"

\* An agent definition: metadata.name and spec (framework optional).
AgentDef(i) ==
  [metadata |-> [name |-> AgentNames[i]],
   spec |-> IF i = 2
            THEN [model |-> "m", instructions |-> "i", framework |-> "openai"]
            ELSE [model |-> "m", instructions |-> "i"]]

\* cls(agent_def): the runtime agent bound to its definition.
NewAgent(agent_def) == [agent_def |-> agent_def]
AgentName(agent) == agent.agent_def.metadata.name

\* WithFramework leaving the definition as it was given.
WithFramework_AsGiven(agent_def) == agent_def

\* agent_def after lines 59-61 and 112-114: framework defaulted when absent.
WithFramework(agent_def) ==
  [agent_def EXCEPT !.spec =
     Put(agent_def.spec, "framework", Get(agent_def.spec, "framework", BEEAI))]

\* ------------------------------------------------- workflow definitions
\* None, and the empty dict {}.
NoneV == [none |-> TRUE]
EmptyDict == [k \in {} |-> NoneV]

\* The optional `inputs` / `context` wiring of a step definition.
Wirings == {"plain", "inputs", "context"}

\* Step definition i: name, agent (the agent's name, a str) and its wiring.
StepDef(i, w) ==
  LET base == [name |-> StepNames[i], agent |-> Str(AgentNames[i])] IN
  CASE w = "plain" -> base
    [] w = "inputs" -> base @@ [inputs |-> <<[from |-> "s2"], [from |-> "s1"]>>]
    [] w = "context" -> base @@ [context |-> <<Lit, [from |-> "s1"]>>]

\* spec.template.event: cron, optional agent, optional steps, exit.
\* The exit expression is "prompt == 'DONE'", or its negation for an event
\* that is to last while the steps answer DONE.
EventKinds == {"none", "steps", "later_steps", "agent_steps", "agent", "while_done"}
Event(k) ==
  LET base == [cron |-> "* * * * *", exit |-> "prompt == 'DONE'"] IN
  CASE k = "steps" -> base @@ [steps |-> <<"s1">>]
    [] k = "while_done" ->
         [cron |-> "* * * * *", exit |-> "prompt != 'DONE'", steps |-> <<"s1">>]
    [] k = "later_steps" -> base @@ [steps |-> <<"s2">>]
    [] k = "agent_steps" -> base @@ [agent |-> "a1", steps |-> <<"s1">>]
    [] k = "agent" -> base @@ [agent |-> "a1"]

\* A workflow definition of n steps.
WorkflowDef(n, ws, ek) ==
  LET tpl == [prompt |-> Hi,
              agents |-> [i \in 1..n |-> AgentNames[i]],
              steps |-> [i \in 1..n |-> StepDef(i, ws[i])]]
  IN [spec |-> [template |-> IF ek = "none" THEN tpl
                             ELSE tpl @@ [event |-> Event(ek)]]]

\* How the agents of a run are supplied: definitions for every agent,
\* definitions that lack the last agent, or none (restore by name).
Setups == {"defs", "short", "restore", "restore_short"}
AgentDefs(n, setup) ==
  CASE setup = "defs" -> [i \in 1..n |-> AgentDef(i)]
    [] setup = "short" -> [i \in 1..(n - 1) |-> AgentDef(i)]
    [] OTHER -> <<>>
\* The durable agent store an earlier `create` phase left behind: agents
\* built from the definitions of that time (another model).
StoredDef(i) == [AgentDef(i) EXCEPT !.spec.model = "m0"]
StoreOf(n, setup) ==
  LET m == IF setup = "restore_short" THEN n - 1 ELSE n IN
  [a \in {AgentNames[i] : i \in 1..m} |->
     NewAgent(WithFramework(StoredDef(AgentIndex(a))))]

\* The inputs Init draws. Every wiring of the steps is drawn with no event
\* and with the events that only name steps, the other events with steps
\* that declare no wiring; agents are supplied by definitions, or restored
\* by name for the workflows without wiring with no event or the event of
\* steps [s1] (how the agents are supplied touches neither the wiring nor
\* the event loop).
AllPlain(n, ws) == \A i \in 1..n : ws[i] = "plain"
Inputs ==
  {inp \in (1..MaxSteps) \X [1..MaxSteps -> Wirings] \X EventKinds \X Setups :
     /\ inp[3] \notin {"none", "steps", "later_steps"} =>
          AllPlain(inp[1], inp[2])
     /\ inp[4] \in {"restore", "restore_short"} =>
          AllPlain(inp[1], inp[2]) /\ inp[3] \in {"none", "steps"}}

\* ------------------------------------------------------------------- state
VARIABLES
  workflow,      \* self.workflow
  agent_defs,    \* self.agent_defs
  agents,        \* self.agents: name -> agent
  steps,         \* self.steps: name -> Step
  context,       \* self._context
  store,         \* the durable agent store
  pc,            \* position of the coroutine run()
  err,           \* the exception that ended the run, if any
  ret,           \* run()'s return value
  caller,        \* who called _process_steps: "run", "seed" or "event"
  trSteps,       \* `steps` of _process_steps: the names of the list traversed
  current_step,  \* current_step of _process_steps
  prompt,        \* prompt of process_event
  first_run,     \* first_run of process_event
  inflight,      \* the agent calls awaiting their result (indices of calls)
  calls,         \* history: every agent call made, with its outcome
  travs,         \* history: the _process_steps calls (list, start, prompt)
  ticks,         \* history: pycron.is_now of each event-loop iteration
  checks,        \* history: the exit checks (prompt checked, outcome)
  run_prompt,    \* history: the prompt argument run() was called with
  memory,        \* a TokenMemory (bee_agent/memory/token_memory.py), or None
  clock,         \* the wall clock of process_event, or None when it is not kept
  hive,          \* the bee-hive Workflow class and its instances, or None
  mcp            \* an MCPToolManager and its open sessions, or None

vars == <<workflow, agent_defs, agents, steps, context, store, pc, err, ret,
          caller, trSteps, current_step, prompt, first_run, inflight, calls,
          travs, ticks, checks, run_prompt, memory, clock,
          hive, mcp>>

\* Number of _process_steps calls so far.
ntrav == Len(travs)
\* Iterations of the event loop so far, and time.sleep(30) calls so far
nticks == Len(ticks)
nsleeps == Cardinality({i \in DOMAIN checks : checks[i].slept})

Tpl == workflow.spec.template

InitEngine(inputs) ==
  \E inp \in inputs :
    /\ workflow = WorkflowDef(inp[1], inp[2], inp[3])
    /\ agent_defs = AgentDefs(inp[1], inp[4])
    /\ store = StoreOf(inp[1], inp[4])
    /\ agents = EmptyDict
    /\ steps = EmptyDict
    /\ context = EmptyDict
    /\ pc = "built"
    /\ err = "none"
    /\ ret = NoneV
    /\ caller = "none"
    /\ trSteps = <<>>
    /\ current_step = "none"
    /\ prompt = NoneV
    /\ first_run = TRUE
    /\ inflight = {}
    /\ calls = <<>>
    /\ travs = <<>>
    /\ ticks = <<>>
    /\ checks = <<>>
    /\ run_prompt = NoneV
    /\ memory = NoneV
    /\ hive = NoneV
    /\ mcp = NoneV

\* Every input, the wall clock not kept.
Init == InitEngine(Inputs) /\ clock = NoneV

\* ----------------------------------------------------- external contracts
Min(S) == CHOOSE x \in S : \A y \in S : x <= y

\* What an agent's run(*args, context=...) may hand back: a bare string (its
\* first argument with the agent's tag appended, or "DONE"), or a mapping
\* with `prompt` and maybe `next`, or a mapping without `prompt`.
Echo(a, args) == Str(Append(args[1].str, AgentTags[AgentIndex(a)]))
NextChoices == {"", "s1", "s3", "end"}
AgentResults(a, args) ==
  LET echo == IF Len(args) > 0 /\ IsStr(args[1]) THEN Echo(a, args) ELSE Done
  IN {Done, echo}
     \cup {[prompt |-> echo, next |-> n] : n \in NextChoices}
     \cup {[response |-> echo]}
\* The call may also raise.
Raised == [raised |-> TRUE]
Pending == [pending |-> TRUE]
Outcomes(a, args) == AgentResults(a, args) \cup {Raised}

\* Step(step_def): the Step bound to the definition's agent.
NewStep(step_def) == [name |-> step_def.name, agent |-> step_def.agent]

\* Step.run's normalisation of the agent's value: a bare string becomes
\* {"prompt": value}, a mapping passes through.
StepResult(raw) == IF IsStr(raw) THEN [prompt |-> raw] ELSE raw

\* eval_expression(expr, prompt) for the exit expression of the model.
EvalExpression(expr, p) ==
  CASE expr = "prompt == 'DONE'" -> p = Done
    [] expr = "prompt != 'DONE'" -> p # Done

\* pycron.is_now(cron): whether the cron expression matches now.
CronNow == BOOLEAN

\* ------------------------------------------------------- _process_steps
NamesOf(stepDefs) == [i \in DOMAIN stepDefs |-> stepDefs[i].name]
InSeq(x, seq) == \E i \in DOMAIN seq : seq[i] = x

\* get_step / next(s for s in steps if s["name"] == name): the first match.
StepDefOf(wf, name) ==
  LET ss == wf.spec.template.steps
  IN ss[Min({i \in DOMAIN ss : ss[i].name = name})]

\* find_index(steps, name), for a name in the list.
find_index(names, name) == Min({i \in DOMAIN names : names[i] = name})

\* Unresolved looking at the first step of the list only: the others are
\* left to be resolved when they are reached.
Unresolved_FirstOnly(wf, ags, names) ==
  {k \in DOMAIN names :
     LET d == StepDefOf(wf, names[k])
     IN k = 1 /\ IsStr(d.agent) /\ d.agent.str \notin DOMAIN ags}

\* Lines 143-151: positions of the list whose agent name is not in agents.
Unresolved(wf, ags, names) ==
  {k \in DOMAIN names :
     LET d == StepDefOf(wf, names[k])
     IN IsStr(d.agent) /\ d.agent.str \notin DOMAIN ags}

\* Line 150: step_def["agent"] = agent_obj for the definitions named in done.
ResolveAgents(wf, ags, done) ==
  LET ss == wf.spec.template.steps
  IN [wf EXCEPT !.spec.template.steps =
        [i \in DOMAIN ss |->
           IF ss[i].name \in done /\ IsStr(ss[i].agent)
              /\ ss[i].agent.str \in DOMAIN ags
           THEN [ss[i] EXCEPT !.agent = ags[ss[i].agent.str]]
           ELSE ss[i]]]

Fail(e) == pc' = "failed" /\ err' = e

\* InitialContext keeping what earlier traversals recorded.
InitialContext_Kept(ctx, initial_prompt) == Put(ctx, "prompt", initial_prompt)

\* Line 141: self._context = {"prompt": initial_prompt}.
InitialContext(ctx, initial_prompt) == [prompt |-> initial_prompt]

\* _process_steps up to the head of its loop: line 141 resets the context,
\* lines 143-151 resolve the agents and build the Steps (stopping at the
\* first agent that is not found), line 153 sets current_step.
ProcessSteps(wf, ags, names, start, initial_prompt, who) ==
  LET bad == Unresolved(wf, ags, names)
      upto == IF bad = {} THEN Len(names) ELSE Min(bad) - 1
      done == {names[k] : k \in 1..upto}
      wf2 == ResolveAgents(wf, ags, done)
  IN /\ context' = InitialContext(context, initial_prompt)
     /\ workflow' = wf2
     /\ steps' = [x \in DOMAIN steps \cup done |->
                    IF x \in done THEN NewStep(StepDefOf(wf2, x)) ELSE steps[x]]
     /\ travs' = Append(travs, [names |-> names, start |-> start,
                                initial_prompt |-> initial_prompt])
     /\ caller' = who
     /\ trSteps' = names
     /\ IF bad = {}
        THEN pc' = "loop" /\ err' = err /\ current_step' = start
        ELSE Fail("AgentNotFound") /\ current_step' = current_step

\* ------------------------------------------------------------------- run
\* CreateOrRestore consulting the durable store in both modes: a stored
\* agent of the same name takes the place of the freshly built one.
CreateOrRestore_StoreFirst(defs, wf, ags, st) ==
  IF Len(defs) > 0
  THEN LET defs1 == [i \in DOMAIN defs |-> WithFramework(defs[i])]
           names == {defs1[i].metadata.name : i \in DOMAIN defs1}
           only(n) == CHOOSE i \in DOMAIN defs1 : defs1[i].metadata.name = n
       IN [ok |-> TRUE, defs |-> defs1,
           agents |-> [n \in DOMAIN ags \cup names |->
                         IF n \in DOMAIN st THEN st[n]
                         ELSE IF n \in names THEN NewAgent(defs1[only(n)])
                         ELSE ags[n]]]
  ELSE LET want == wf.spec.template.agents
       IN [ok |-> \A i \in DOMAIN want : want[i] \in DOMAIN st, defs |-> defs,
           agents |-> [n \in DOMAIN ags \cup ({want[i] : i \in DOMAIN want}
                                               \cap DOMAIN st) |->
                         IF n \in DOMAIN st THEN st[n] ELSE ags[n]]]

\* create_or_restore_agents: the agents map and the definitions after it,
\* and whether restore_agent found every name.
CreateOrRestore(defs, wf, ags, st) ==
  IF Len(defs) > 0
  THEN LET defs1 == [i \in DOMAIN defs |-> WithFramework(defs[i])]
           names == {defs1[i].metadata.name : i \in DOMAIN defs1}
           last(n) == CHOOSE i \in DOMAIN defs1 :
                        /\ defs1[i].metadata.name = n
                        /\ \A j \in DOMAIN defs1 :
                             defs1[j].metadata.name = n => j <= i
       IN [ok |-> TRUE, defs |-> defs1,
           agents |-> [n \in DOMAIN ags \cup names |->
                         IF n \in names THEN NewAgent(defs1[last(n)]) ELSE ags[n]]]
  ELSE LET want == wf.spec.template.agents
           missing == {i \in DOMAIN want : want[i] \notin DOMAIN st}
           upto == IF missing = {} THEN Len(want) ELSE Min(missing) - 1
           got == {want[i] : i \in 1..upto}
       IN [ok |-> missing = {}, defs |-> defs,
           agents |-> [n \in DOMAIN ags \cup got |->
                         IF n \in got THEN st[n] ELSE ags[n]]]

\* WithPrompt dropping run()'s argument: the template prompt always.
WithPrompt_TemplateOnly(wf, p) == wf

\* Lines 97-98: a non-empty prompt argument replaces the template prompt.
WithPrompt(wf, p) ==
  IF Truthy(p) THEN [wf EXCEPT !.spec.template.prompt = p] ELSE wf

\* run(prompt) up to the head of _process_steps' loop.
Run(p) ==
  /\ pc = "built"
  /\ LET wf1 == WithPrompt(workflow, p)
         cr == CreateOrRestore(agent_defs, wf1, agents, store)
         tpl == wf1.spec.template
     IN /\ agent_defs' = cr.defs
        /\ agents' = cr.agents
        /\ IF cr.ok
           THEN ProcessSteps(wf1, cr.agents, NamesOf(tpl.steps), tpl.steps[1].name,
                             tpl.prompt,
                             IF "event" \in DOMAIN tpl THEN "seed" ELSE "run")
           ELSE /\ Fail("AgentNotRestored")
                /\ workflow' = wf1
                /\ UNCHANGED <<steps, context, travs, caller, trSteps, current_step>>
  /\ run_prompt' = p
  /\ UNCHANGED <<store, ret, prompt, first_run, inflight, calls, ticks, checks,
                 memory, clock,
                 hive, mcp>>

\* --------------------------------------------------- the traversal loop
\* MissingInputs without the check of line 162.
MissingInputs_Unchecked(step_def, ctx) == {}

\* Lines 158-168: the keys of `inputs` that the context lacks, and the args.
MissingInputs(step_def, ctx) ==
  IF "inputs" \in DOMAIN step_def
  THEN {i \in DOMAIN step_def.inputs : step_def.inputs[i].from \notin DOMAIN ctx}
  ELSE {}
\* ResolveInputs ignoring `inputs`: the step always gets context["prompt"].
ResolveInputs_PromptOnly(step_def, ctx) == <<ctx["prompt"]>>

\* self._context[var]: the value, or KeyError.
KeyError == [raised |-> "KeyError"]
Lookup(ctx, var) == IF var \in DOMAIN ctx THEN ctx[var] ELSE KeyError
ResolveInputs(step_def, ctx) ==
  IF "inputs" \in DOMAIN step_def
  THEN [i \in DOMAIN step_def.inputs |-> Lookup(ctx, step_def.inputs[i].from)]
  ELSE <<ctx["prompt"]>>

\* Lines 170-183: the same for `context`; a str item passes through.
MissingContext(step_def, ctx) ==
  IF "context" \in DOMAIN step_def
  THEN {i \in DOMAIN step_def.context :
          /\ ~IsStr(step_def.context[i])
          /\ step_def.context[i].from \notin DOMAIN ctx}
  ELSE {}
ResolveContext(step_def, ctx) ==
  IF "context" \in DOMAIN step_def
  THEN [items |-> [i \in DOMAIN step_def.context |->
                     IF IsStr(step_def.context[i]) THEN step_def.context[i]
                     ELSE Lookup(ctx, step_def.context[i].from)]]
  ELSE NoneV

\* Known looking the name up among all Steps built so far (self.steps)
\* instead of the list being traversed.
Known_AnyStep(name, names) == name \in DOMAIN steps

\* Line 157: whether the list has a definition named current_step.
Known(name, names) == InSeq(name, names)

\* The call started without awaiting it: the loop goes straight on.
AwaitStep_NotAwaited == "loop"

\* The position after a call is started: the coroutine awaits its result.
AwaitStep == "await_step"

\* One iteration of the loop up to the call (lines 157-187): find the
\* definition of current_step, resolve its inputs and context, call the Step.
StepBegin ==
  /\ pc = "loop"
  /\ IF ~Known(current_step, trSteps)
     THEN Fail("StopIteration") /\ UNCHANGED <<inflight, calls>>
     ELSE LET step_def == StepDefOf(workflow, current_step) IN
          IF MissingInputs(step_def, context) # {}
          THEN Fail("MissingInput") /\ UNCHANGED <<inflight, calls>>
          ELSE IF MissingContext(step_def, context) # {}
          THEN Fail("MissingContext") /\ UNCHANGED <<inflight, calls>>
          ELSE /\ Len(calls) < MaxCalls
               /\ calls' = Append(calls,
                    [kind |-> "step", trav |-> ntrav, tick |-> nticks,
                     name |-> current_step,
                     agent |-> AgentName(steps[current_step].agent),
                     args |-> ResolveInputs(step_def, context),
                     context |-> ResolveContext(step_def, context),
                     before |-> context,
                     result |-> Pending])
               /\ inflight' = inflight \cup {Len(calls) + 1}
               /\ pc' = AwaitStep
               /\ err' = err
  /\ UNCHANGED <<workflow, agent_defs, agents, steps, context, store, ret,
                 caller, trSteps, current_step, prompt, first_run, travs,
                 ticks, checks, run_prompt, memory, clock,
                 hive, mcp>>

\* ExitCheck breaking out of the loop whatever the exit expression says.
ExitCheck_AlwaysBreak(p) ==
  /\ prompt' = p
  /\ pc' = "done" /\ ret' = p
  /\ checks' = Append(checks, [prompt |-> p,
                                exit |-> EvalExpression(Tpl.event.exit, p),
                                slept |-> FALSE])
  /\ err' = err

\* Lines 226-228 of process_event: return the prompt when the exit
\* expression holds, else sleep and go round again.
ExitCheck(p) ==
  /\ prompt' = p
  /\ IF EvalExpression(Tpl.event.exit, p)
     THEN /\ pc' = "done" /\ ret' = p
          /\ checks' = Append(checks, [prompt |-> p, exit |-> TRUE, slept |-> FALSE])
     ELSE /\ pc' = "event" /\ ret' = ret
          /\ checks' = Append(checks, [prompt |-> p, exit |-> FALSE, slept |-> TRUE])
  /\ err' = err

\* Adopted keeping the prompt the tick started with.
Adopted_Stale(out, p) == p

\* Line 223: prompt = out.get("final_prompt", prompt).
Adopted(out, p) == Get(out, "final_prompt", p)

\* The value of _process_steps (lines 205-206) back in its caller: run()
\* returns it (line 107), or hands it to process_event (lines 104-105), or
\* process_event adopts its final_prompt (lines 223-228).
Return(out) ==
  CASE caller = "run" ->
         /\ pc' = "done" /\ ret' = out /\ err' = err
         /\ UNCHANGED <<prompt, first_run, checks>>
    [] caller = "seed" ->
         /\ pc' = "event" /\ prompt' = out /\ first_run' = TRUE /\ err' = err
         /\ UNCHANGED <<ret, checks>>
    [] caller = "event" ->
         /\ first_run' = FALSE
         /\ ExitCheck(Adopted(out, prompt))

\* Recorded without line 194: the step's own entry is not written.
Recorded_PromptOnly(ctx, step, new_prompt) == Put(ctx, "prompt", new_prompt)

\* Recorded without line 195: context["prompt"] is not advanced.
Recorded_StepOnly(ctx, step, new_prompt) == Put(ctx, step, new_prompt)

\* Lines 194-195: the context after the step's prompt is recorded.
Recorded(ctx, step, new_prompt) ==
  Put(Put(ctx, step, new_prompt), "prompt", new_prompt)

\* ExplicitNext ignoring the result's `next`: declaration order always.
ExplicitNext_Ignored(result) == ""

\* ExplicitNext with a guard against a step naming itself.
ExplicitNext_NoSelfJump(result) ==
  IF Get(result, "next", "") = current_step THEN "" ELSE Get(result, "next", "")

\* Line 197: result.get("next"), "" when absent (both falsy).
ExplicitNext(result) == Get(result, "next", "")

\* IsLast one position too early: the loop breaks before the last step.
IsLast_OneEarly(idx, names) == idx >= Len(names) - 1

\* Line 201: idx == len(steps) - 1 (positions counted from 1 here).
IsLast(idx, names) == idx = Len(names)

\* Lines 193-203: record new_prompt and move to the next step, or return.
Advance(result, new_prompt) ==
  LET ctx2 == Recorded(context, current_step, new_prompt) IN
  /\ context' = ctx2
  /\ IF ExplicitNext(result) # ""
     THEN /\ current_step' = ExplicitNext(result)
          /\ pc' = "loop" /\ err' = err
          /\ UNCHANGED <<ret, prompt, first_run, checks>>
     ELSE LET idx == find_index(trSteps, current_step) IN
          IF IsLast(idx, trSteps)
          THEN /\ Return([final_prompt |-> ctx2["prompt"]])
               /\ current_step' = current_step
          ELSE /\ current_step' = trSteps[idx + 1]
               /\ pc' = "loop" /\ err' = err
               /\ UNCHANGED <<ret, prompt, first_run, checks>>

\* Record without the check of line 189: a result without `prompt` is
\* passed over and the traversal goes on with the prompt it had.
Record_Lenient(result) ==
  Advance(result, Get(result, "prompt", context["prompt"]))

\* Lines 189-203 for a result of the Step's call: a result without
\* `prompt` raises before anything is recorded.
Record(result) ==
  IF "prompt" \notin DOMAIN result
  THEN /\ Fail("NoPrompt")
       /\ UNCHANGED <<context, current_step, ret, prompt, first_run, checks>>
  ELSE Advance(result, result["prompt"])

\* ------------------------------------------------------------ wall clock
\* The wall clock, when kept, counts in units of the sleep of line 228
\* (30 seconds): `now` is the time since the start of the minute in which
\* process_event was entered, `at` the minute of each iteration's cron
\* check, `seen` what pycron.is_now answered in each minute checked so far.
\* pycron.is_now matches the current minute against the cron expression,
\* so within one minute it gives one answer.
Minute(t) == t \div 2
NewClock(start) == [now |-> start, at |-> <<>>, seen |-> EmptyDict]
\* The time an awaited call of event iteration `tick` takes: less than one
\* sleep, or one sleep. Time spent before the loop is part of the start.
Durations(clk, tick) == IF clk = NoneV \/ tick = 0 THEN {0} ELSE {0, 1}
Elapsed(clk, d) == IF clk = NoneV THEN clk ELSE [clk EXCEPT !.now = clk.now + d]
\* The time of the next cron check: every check but the first comes after
\* the sleep of line 228.
PollTime(clk) ==
  IF clk = NoneV THEN 0 ELSE IF clk.at = <<>> THEN clk.now ELSE clk.now + 1
\* What pycron.is_now may answer at time t (line 217).
IsNowChoices(clk, t) ==
  IF clk = NoneV THEN CronNow
  ELSE IF Minute(t) \in DOMAIN clk.seen THEN {clk.seen[Minute(t)]}
  ELSE CronNow
Polled(clk, t, is_now) ==
  IF clk = NoneV THEN clk
  ELSE [now |-> t, at |-> Append(clk.at, Minute(t)),
        seen |-> Put(clk.seen, Minute(t), is_now)]

\* RaisedInStep caught, the iteration going round again on the same step.
RaisedInStep_Retried == pc' = "loop" /\ err' = err

\* Lines 184-187: the await of the Step's call is not guarded; what it
\* raises leaves _process_steps and run().
RaisedInStep == Fail("AgentError")

\* The Step's call returns (or raises) and the iteration runs to its end.
StepReturn ==
  /\ pc = "await_step"
  /\ \E k \in inflight :
       /\ calls[k].kind = "step"
       /\ \E raw \in Outcomes(calls[k].agent, calls[k].args) :
            /\ inflight' = inflight \ {k}
            /\ IF raw = Raised
               THEN /\ calls' = [calls EXCEPT ![k].result = Raised]
                    /\ RaisedInStep
                    /\ UNCHANGED <<context, current_step, ret, prompt,
                                   first_run, checks>>
               ELSE /\ calls' = [calls EXCEPT ![k].result = StepResult(raw)]
                    /\ Record(StepResult(raw))
  /\ UNCHANGED <<workflow, agent_defs, agents, steps, store, caller, trSteps,
                 travs, ticks, run_prompt, memory, hive, mcp>>
  /\ \E d \in Durations(clock, nticks) : clock' = Elapsed(clock, d)

\* ---------------------------------------------------------- process_event
\* Lines 220-224: run the event's step list, if it names one.
EventSteps(p) ==
  IF "steps" \in DOMAIN Tpl.event /\ Len(Tpl.event.steps) > 0
  THEN LET step_names == Tpl.event.steps IN
       IF \E i \in DOMAIN step_names : ~InSeq(step_names[i], NamesOf(Tpl.steps))
       THEN /\ Fail("StepNotFound")
            /\ prompt' = p
            /\ UNCHANGED <<workflow, steps, context, travs, caller, trSteps,
                           current_step, ret, first_run, checks>>
       ELSE /\ ProcessSteps(workflow, agents, step_names, step_names[1], p, "event")
            /\ prompt' = p
            /\ UNCHANGED <<ret, first_run, checks>>
  ELSE /\ first_run' = FALSE
       /\ ExitCheck(p)
       /\ UNCHANGED <<workflow, steps, context, travs, caller, trSteps, current_step>>

\* RunsEventAgent without first_run: the agent runs on every matching tick.
RunsEventAgent_EveryTick(fr, event) == "agent" \in DOMAIN event

\* Line 218: `first_run and agent_name`.
RunsEventAgent(fr, event) == fr /\ "agent" \in DOMAIN event

\* IsNow taking every tick for a match.
IsNow_Always(is_now) == TRUE

\* Line 217: the branch taken on pycron.is_now(cron).
IsNow(is_now) == is_now

\* One iteration of the event loop up to its first call (lines 216-228).
Tick ==
  /\ pc = "event"
  /\ nticks < MaxTicks
  /\ \E is_now \in IsNowChoices(clock, PollTime(clock)) :
     /\ clock' = Polled(clock, PollTime(clock), is_now)
     /\ ticks' = Append(ticks, is_now)
     /\
       IF IsNow(is_now)
       THEN IF RunsEventAgent(first_run, Tpl.event)
            THEN /\ IF Tpl.event.agent \notin DOMAIN agents
                    THEN Fail("KeyError") /\ UNCHANGED <<inflight, calls>>
                    ELSE /\ Len(calls) < MaxCalls
                         /\ calls' = Append(calls,
                              [kind |-> "agent", trav |-> ntrav, tick |-> nticks + 1,
                               name |-> Tpl.event.agent,
                               agent |-> AgentName(agents[Tpl.event.agent]),
                               args |-> <<prompt>>, context |-> NoneV,
                               before |-> context, result |-> Pending])
                         /\ inflight' = inflight \cup {Len(calls) + 1}
                         /\ pc' = "await_agent" /\ err' = err
                 /\ UNCHANGED <<workflow, steps, context, travs, caller, trSteps,
                                current_step, ret, prompt, first_run, checks>>
            ELSE EventSteps(prompt) /\ UNCHANGED <<inflight, calls>>
       ELSE /\ ExitCheck(prompt)
            /\ UNCHANGED <<workflow, steps, context, travs, caller, trSteps,
                           current_step, first_run, inflight, calls>>
  /\ UNCHANGED <<agent_defs, agents, store, run_prompt, memory, hive, mcp>>

\* The event agent's call returns (line 219) and the tick goes on.
AgentReturn ==
  /\ pc = "await_agent"
  /\ \E k \in inflight :
       /\ calls[k].kind = "agent"
       /\ \E raw \in Outcomes(calls[k].agent, calls[k].args) :
            /\ inflight' = inflight \ {k}
            /\ calls' = [calls EXCEPT ![k].result = raw]
            /\ IF raw = Raised
               THEN /\ Fail("EventAgentError")
                    /\ UNCHANGED <<workflow, steps, context, travs, caller, trSteps,
                                   current_step, ret, prompt, first_run, checks>>
               ELSE EventSteps(raw)
  /\ UNCHANGED <<agent_defs, agents, store, ticks, run_prompt, memory, hive, mcp>>
  /\ \E d \in Durations(clock, nticks) : clock' = Elapsed(clock, d)

\* run(prompt) is called with no prompt or with one.
RunPrompts == {Empty, Go}

Next ==
  \/ \E p \in RunPrompts : Run(p)
  \/ StepBegin
  \/ StepReturn
  \/ Tick
  \/ AgentReturn

Spec == Init /\ [][Next]_vars

\* ------------------------------------------------------------ history views
\* The Step calls of traversal t, in the order they were made.
StepCalls(t) == SelectSeq(calls, LAMBDA c : c.kind = "step" /\ c.trav = t)
HasPrompt(c) == "prompt" \in DOMAIN c.result
CarriesNext(c) == "next" \in DOMAIN c.result
\* The step name a call's result names as next, "" if it names none.
NextOf(c) == IF CarriesNext(c) THEN c.result["next"] ELSE ""
\* No step of the workflow declares `inputs`.
NoInputsDeclared ==
  \A i \in DOMAIN Tpl.steps : "inputs" \notin DOMAIN Tpl.steps[i]
\* run() has returned the value of its single traversal (no event block).
Returned == pc = "done" /\ caller = "run"

Max(S) == CHOOSE x \in S : \A y \in S : y <= x
\* The errors raised inside the loop of _process_steps.
TraversalErrors ==
  {"StopIteration", "MissingInput", "MissingContext", "NoPrompt", "AgentError"}
\* The calls of traversal t made before call k that recorded a prompt.
RecordedBefore(t, k) ==
  {j \in DOMAIN calls :
     /\ j < k /\ calls[j].kind = "step" /\ calls[j].trav = t
     /\ HasPrompt(calls[j])}
\* What the steps before call k of traversal t produced under the key var:
\* under "prompt" the latest prompt (the traversal's initial prompt if
\* there is none), under a step's name that step's latest prompt.
Produced(t, k, var) ==
  LET done == RecordedBefore(t, k)
      named == {j \in done : calls[j].name = var}
  IN IF var = "prompt"
     THEN IF done = {} THEN travs[t].initial_prompt
          ELSE calls[Max(done)].result["prompt"]
     ELSE IF named = {} THEN KeyError
          ELSE calls[Max(named)].result["prompt"]

\* The context the steps before call k of traversal t have produced.
ContextOf(t, k) ==
  [var \in {"prompt"} \cup {calls[j].name : j \in RecordedBefore(t, k)} |->
     Produced(t, k, var)]
\* The {from: key} keys a step definition declares in inputs and context.
FromKeys(step_def) ==
  (IF "inputs" \in DOMAIN step_def
   THEN {step_def.inputs[i].from : i \in DOMAIN step_def.inputs} ELSE {})
  \cup
  (IF "context" \in DOMAIN step_def
   THEN {step_def.context[i].from :
           i \in {j \in DOMAIN step_def.context : ~IsStr(step_def.context[j])}}
   ELSE {})
\* The call has returned a value (it is neither pending nor raised).
Answered(c) == c.result # Pending /\ c.result # Raised

\* ------------------------------------------------------------------ claims
\* C1: sequential propagation. For a workflow whose steps declare no inputs
\* and whose results carry no next, _condition() calls the first step with
\* the template prompt, every later step with the prompt of the step declared
\* just before it, and returns {"final_prompt": p}, p the last step's prompt.
C1_SequentialPropagation ==
  LET cs == StepCalls(1) IN
  (NoInputsDeclared /\ \A k \in DOMAIN cs : ~CarriesNext(cs[k])) =>
    /\ \A k \in DOMAIN cs :
         /\ cs[k].name = Tpl.steps[k].name
         /\ cs[k].args = <<IF k = 1 THEN Tpl.prompt ELSE cs[k - 1].result["prompt"]>>
    /\ Returned =>
         /\ Len(cs) = Len(Tpl.steps)
         /\ ret = [final_prompt |-> cs[Len(cs)].result["prompt"]]

\* C1 witness: Scenario A, agents appending "::1" and "::2" to prompt "hi".
C1_Witness ==
  /\ Returned
  /\ NoInputsDeclared
  /\ Len(Tpl.steps) = 2
  /\ \A k \in DOMAIN calls : ~CarriesNext(calls[k])
  /\ Tpl.prompt = Hi
  /\ ret = [final_prompt |-> Str(<<"hi", "::1", "::2">>)]

\* C2: named-context binding. A step that declares inputs [{from: k}, ...] is
\* called with exactly the values the context holds under each k, one
\* positional value per entry in declaration order, and not with
\* context["prompt"], also after a later step has overwritten "prompt".
C2_NamedContextBinding ==
  \A k \in DOMAIN calls :
    LET c == calls[k]
        step_def == StepDefOf(workflow, c.name)
    IN (c.kind = "step" /\ "inputs" \in DOMAIN step_def) =>
         /\ Len(c.args) = Len(step_def.inputs)
         /\ \A i \in DOMAIN step_def.inputs :
              c.args[i] = Produced(c.trav, k, step_def.inputs[i].from)

\* C2 witness: s3 with inputs [s2, s1] receives s1's output as its second
\* argument after s2 has overwritten context["prompt"].
C2_Witness ==
  /\ Len(calls) = 3
  /\ calls[1].name = "s1" /\ calls[2].name = "s2" /\ calls[3].name = "s3"
  /\ "inputs" \in DOMAIN StepDefOf(workflow, "s3")
  /\ calls[3].args = <<calls[2].result["prompt"], calls[1].result["prompt"]>>
  /\ calls[3].args[2] # context["prompt"]

\* C3: explicit next overrides declaration order. The step called after a
\* result that carries next is the step named by it; when s1's result
\* carries next s3 and s3's carries none, s2 is never invoked in that
\* traversal and context["prompt"] at the end is s3's output.
C3_NextOverridesOrder ==
  /\ \A k \in DOMAIN calls :
       (/\ calls[k].kind = "step" /\ HasPrompt(calls[k])
        /\ NextOf(calls[k]) # ""
        /\ k + 1 \in DOMAIN calls
        /\ calls[k + 1].kind = "step" /\ calls[k + 1].trav = calls[k].trav)
       => calls[k + 1].name = calls[k].result["next"]
  /\ LET cs == StepCalls(1) IN
     (/\ Len(Tpl.steps) = 3 /\ Len(cs) >= 2
      /\ HasPrompt(cs[1]) /\ NextOf(cs[1]) = "s3"
      /\ HasPrompt(cs[2]) /\ NextOf(cs[2]) = "")
     => /\ Len(cs) = 2
        /\ cs[2].name = "s3"
        /\ \A k \in DOMAIN cs : cs[k].name # "s2"
        /\ ntrav = 1 =>
             /\ pc \notin {"loop", "await_step"}
             /\ err \notin TraversalErrors
             /\ context["prompt"] = cs[2].result["prompt"]
        /\ Returned => ret = [final_prompt |-> cs[2].result["prompt"]]

\* C3 witness: s1 jumped to s3 and the run returned without calling s2.
C3_Witness ==
  /\ Returned
  /\ Len(Tpl.steps) = 3
  /\ Len(calls) = 2
  /\ calls[1].name = "s1" /\ calls[1].result["next"] = "s3"
  /\ calls[2].name = "s3"
  /\ context["prompt"] = calls[2].result["prompt"]
  /\ context["prompt"] # calls[1].result["prompt"]

\* C4: when a next value is the terminal sentinel "end", the traversal stops
\* normally and returns {"final_prompt": context["prompt"]}; it does not look
\* up a step named "end" and does not raise.
C4_EndSentinelStops ==
  \A k \in DOMAIN calls :
    (calls[k].kind = "step" /\ HasPrompt(calls[k]) /\ NextOf(calls[k]) = "end") =>
      /\ ~(pc = "failed" /\ err = "StopIteration")
      /\ Returned => ret = [final_prompt |-> calls[k].result["prompt"]]

\* C5: missing prompt key is fatal. If Step.run returns a mapping without
\* "prompt", _process_steps raises at that step; the context is not updated
\* with that result and no later step is invoked.
C5_MissingPromptFatal ==
  \A k \in DOMAIN calls :
    (calls[k].kind = "step" /\ Answered(calls[k]) /\ ~HasPrompt(calls[k])) =>
      /\ pc = "failed" /\ err = "NoPrompt"
      /\ context = calls[k].before
      /\ k = Len(calls)
      /\ inflight = {}

\* C5 witness: the second step of a traversal returned a mapping without
\* "prompt" after the first had been recorded.
C5_Witness ==
  /\ pc = "failed" /\ err = "NoPrompt"
  /\ Len(calls) = 2
  /\ "response" \in DOMAIN calls[2].result
  /\ calls[1].name \in DOMAIN context

\* C6: missing context key is fatal before the call. If a step's inputs or
\* context contains {from: k} and k is not a key of the current context,
\* _process_steps raises before invoking that step's agent, and the context
\* is left as it was before the step.
C6_MissingKeyFatal ==
  /\ \A k \in DOMAIN calls :
       calls[k].kind = "step" =>
         FromKeys(StepDefOf(workflow, calls[k].name)) \subseteq DOMAIN calls[k].before
  /\ (pc = "failed" /\ err \in {"MissingInput", "MissingContext"}) =>
       /\ ~(FromKeys(StepDefOf(workflow, current_step)) \subseteq DOMAIN context)
       /\ inflight = {}
       /\ \A k \in DOMAIN calls : calls[k].result # Pending
       /\ context = ContextOf(ntrav, Len(calls) + 1)

\* C6 witness: after one recorded step, a step whose inputs name a key the
\* context lacks made the traversal raise.
C6_Witness ==
  /\ pc = "failed" /\ err = "MissingInput"
  /\ Len(calls) = 1 /\ HasPrompt(calls[1])
  /\ current_step # calls[1].name

\* C6 witness for `context`: a {from: k} context entry with k missing.
C6_WitnessContext == pc = "failed" /\ err = "MissingContext"

\* C7: context invariant. context["prompt"] equals the prompt of the most
\* recently completed step of the traversal (the initial prompt if none has
\* completed), and for every step name that has executed, context[name]
\* equals the prompt of that step's most recent result.
C7_ContextInvariant ==
  ntrav > 0 => context = ContextOf(ntrav, Len(calls) + 1)

\* C7 witness: s1 ran twice (a jump back); the context holds s1's second
\* prompt, not its first, under both s1 and prompt.
C7_Witness ==
  /\ pc = "loop"
  /\ Len(calls) = 2
  /\ calls[1].name = "s1" /\ calls[2].name = "s1"
  /\ context["s1"] = calls[2].result["prompt"]
  /\ context["s1"] # calls[1].result["prompt"]
  /\ context["prompt"] = calls[2].result["prompt"]

\* C8: unknown step name is a fatal lookup error. If a result's next names a
\* step that is not in the list being traversed (the full list, or the event
\* subset during a tick), the traversal fails at that point and invokes no
\* further step.
C8_UnknownStepFatal ==
  \A k \in DOMAIN calls :
    (/\ calls[k].kind = "step" /\ HasPrompt(calls[k])
     /\ NextOf(calls[k]) # ""
     /\ ~InSeq(NextOf(calls[k]), travs[calls[k].trav].names)) =>
      /\ k = Len(calls)
      /\ inflight = {}
      /\ current_step = NextOf(calls[k])
      /\ \/ pc = "loop"
         \/ pc = "failed" /\ err = "StopIteration"

\* C8 witness: during an event tick a result named a step of the workflow
\* that is not in the event's step list, and the traversal failed.
C8_Witness ==
  /\ pc = "failed" /\ err = "StopIteration"
  /\ caller = "event"
  /\ InSeq(current_step, NamesOf(Tpl.steps))
  /\ ~InSeq(current_step, trSteps)

\* C9: strictly sequential execution. At most one step (or event agent) call
\* is in flight at any time; a step's call returns and its result is written
\* to the context before the next step's inputs are resolved and its call
\* starts.
C9_StrictlySequential ==
  /\ Cardinality(inflight) <= 1
  /\ inflight = {k \in DOMAIN calls : calls[k].result = Pending}
  /\ \A k \in DOMAIN calls : calls[k].result = Pending => k = Len(calls)
  /\ pc \in {"loop", "event"} => inflight = {}
  /\ \A k \in DOMAIN calls :
       (/\ k > 1 /\ calls[k].kind = "step" /\ calls[k - 1].kind = "step"
        /\ calls[k].trav = calls[k - 1].trav) =>
         /\ HasPrompt(calls[k - 1])
         /\ calls[k - 1].name \in DOMAIN calls[k].before
         /\ calls[k].before[calls[k - 1].name] = calls[k - 1].result["prompt"]
         /\ calls[k].before["prompt"] = calls[k - 1].result["prompt"]

\* C9 witness: a second step's call is in flight after the first returned.
C9_Witness ==
  /\ pc = "await_step"
  /\ inflight = {2}
  /\ calls[1].kind = "step" /\ HasPrompt(calls[1])
  /\ calls[2].kind = "step" /\ calls[2].name # calls[1].name

\* C10: run() with an event block traverses the step graph exactly once and
\* then enters process_event with the final prompt value of that traversal
\* as the seed prompt; run() without an event block traverses the graph
\* exactly once and returns the traversal's result {"final_prompt": v}.
C10_SeedIsFinalPrompt ==
  /\ (pc = "event" /\ nticks = 0) =>
       /\ ntrav = 1
       /\ prompt = context["prompt"]
  /\ Returned =>
       /\ ntrav = 1
       /\ ret = [final_prompt |-> context["prompt"]]

\* ------------------------------------------------- history of the event loop
\* The calls of the event agent, and the ticks whose cron check matched.
AgentCalls == {k \in DOMAIN calls : calls[k].kind = "agent"}
Matched == {i \in DOMAIN ticks : ticks[i]}
HasEvent == "event" \in DOMAIN Tpl
EventHas(k) == HasEvent /\ k \in DOMAIN Tpl.event

\* C11: in process_event the event agent is invoked exactly once over the
\* whole loop: on the first iteration whose cron check matches, before that
\* tick's step list runs, with its output adopted as the prompt fed to the
\* steps; it is never invoked on a later tick.
C11_EventAgentOnce ==
  /\ Cardinality(AgentCalls) <= 1
  /\ \A k \in AgentCalls :
       /\ EventHas("agent") /\ calls[k].name = Tpl.event.agent
       /\ calls[k].tick = Min(Matched)
       /\ pc = "await_agent" => calls[k].args = <<prompt>>
       /\ calls[k].tick > 1 => calls[k].args = <<checks[calls[k].tick - 1].prompt>>
       /\ \A j \in DOMAIN calls :
            (calls[j].kind = "step" /\ calls[j].tick >= calls[k].tick)
              => j > k /\ calls[j].trav > calls[k].trav /\ Answered(calls[k])
       /\ ntrav > calls[k].trav =>
            travs[calls[k].trav + 1].initial_prompt = calls[k].result
  /\ (EventHas("agent") /\ Matched # {} /\ err # "KeyError") =>
       \E k \in AgentCalls : calls[k].tick = Min(Matched)

\* C11 witness: the first tick missed, the second matched and ran the event
\* agent, and the tick's step list was then run on the agent's output.
C11_Witness ==
  /\ ticks = <<FALSE, TRUE>>
  /\ \E k \in AgentCalls :
       /\ calls[k].tick = 2
       /\ ntrav = calls[k].trav + 1
       /\ \E j \in DOMAIN calls :
            /\ j > k /\ calls[j].kind = "step"
            /\ calls[j].args = <<calls[k].result>>

\* C11 second witness: the agent ran on the first tick and a later matching
\* tick went by without it.
C11_WitnessLater ==
  /\ ticks = <<TRUE, TRUE>>
  /\ Cardinality(AgentCalls) = 1
  /\ Len(checks) = 2

\* process_event has returned / run() has returned what it returned.
EventReturned == pc = "done" /\ caller # "run"

\* C12: process_event evaluates the exit expression against the current
\* prompt on every iteration, whether or not the cron check matched; it
\* returns the current prompt in the first iteration where the expression
\* is true, and while it is false it never returns normally: it sleeps and
\* iterates again.
C12_ExitCheckedEveryTick ==
  /\ Len(checks) <= nticks
  /\ pc \in {"event", "done"} /\ HasEvent /\ ntrav > 0 => Len(checks) = nticks
  /\ \A i \in DOMAIN checks :
       /\ checks[i].exit = EvalExpression(Tpl.event.exit, checks[i].prompt)
       /\ i = Len(checks) /\ pc \in {"event", "done"} => checks[i].prompt = prompt
       /\ checks[i].exit =>
            /\ i = nticks /\ ~checks[i].slept
            /\ EventReturned /\ ret = checks[i].prompt
       /\ ~checks[i].exit =>
            /\ checks[i].slept
            /\ i = nticks => pc = "event" /\ ret = NoneV
  /\ EventReturned => nticks > 0 /\ Len(checks) = nticks /\ checks[nticks].exit

\* C12 witness: the exit expression was false on a tick whose cron check
\* missed, the loop slept, and process_event returned DONE on the next tick.
C12_Witness ==
  /\ ticks = <<FALSE, TRUE>>
  /\ Len(checks) = 2
  /\ ~checks[1].exit /\ checks[1].slept
  /\ checks[2].exit
  /\ EventReturned /\ ret = Done

\* The Step calls made by the event loop, in the order they were made.
EventStepCalls == SelectSeq(calls, LAMBDA c : c.kind = "step" /\ c.tick >= 1)

\* C13: scenario C. With the cron check matching on the first iteration,
\* event steps [s1], exit expression prompt == 'DONE' and s1 answering
\* "DONE", process_event runs s1 exactly once, sleeps never and returns
\* "DONE".
C13_ScenarioC ==
  ( /\ EventHas("steps") /\ ~EventHas("agent")
    /\ Tpl.event.steps = <<"s1">>
    /\ Tpl.event.exit = "prompt == 'DONE'"
    /\ nticks >= 1 /\ ticks[1]
    /\ Len(EventStepCalls) >= 1
    /\ EventStepCalls[1].result = [prompt |-> Done] )
  => /\ Len(EventStepCalls) = 1
     /\ EventStepCalls[1].name = "s1"
     /\ nticks = 1 /\ nsleeps = 0
     /\ EventReturned /\ ret = Done

\* C13 witness: scenario C has run to its end.
C13_Witness ==
  /\ EventHas("steps") /\ ~EventHas("agent")
  /\ Tpl.event.steps = <<"s1">>
  /\ Tpl.event.exit = "prompt == 'DONE'"
  /\ ticks = <<TRUE>>
  /\ Len(EventStepCalls) = 1
  /\ EventStepCalls[1].result = [prompt |-> Done]
  /\ EventReturned /\ ret = Done /\ nsleeps = 0

\* The prompt process_event was entered with: what _condition() returned.
SeedPrompt ==
  LET cs == StepCalls(1) IN [final_prompt |-> cs[Len(cs)].result.prompt]
\* The prompt iteration i of the event loop began with.
PromptBefore(i) == IF i = 1 THEN SeedPrompt ELSE checks[i - 1].prompt
\* The iterations whose cron check missed and that ran to their end.
Missed == {i \in DOMAIN checks : ~ticks[i]}

\* A cron miss changes nothing: no agent and no step is invoked in that
\* iteration, the prompt stays as it was, and the event agent remains
\* pending for the first matching tick.
MissIsNoOp ==
  /\ \A i \in DOMAIN ticks : ~ticks[i] =>
       /\ \A k \in DOMAIN calls : calls[k].tick # i
       /\ i \in DOMAIN checks
  /\ \A i \in Missed : checks[i].prompt = PromptBefore(i)
  /\ (HasEvent /\ pc = "event" /\ Matched = {}) =>
       /\ first_run
       /\ AgentCalls = {} /\ ntrav = 1

\* C14 as stated: a cron miss is a no-op, and the loop then sleeps and
\* checks again.
C14_CronMissSleeps ==
  /\ MissIsNoOp
  /\ \A i \in Missed :
       /\ checks[i].slept
       /\ i = nticks => pc = "event"

\* C14 amended: a cron miss is a no-op; the exit expression is then
\* evaluated on the unchanged prompt, and the loop sleeps and checks again
\* unless the expression holds, in which case process_event returns the
\* unchanged prompt without sleeping.
C14_CronMissNoOp ==
  /\ MissIsNoOp
  /\ \A i \in Missed :
       /\ checks[i].slept = ~checks[i].exit
       /\ (checks[i].slept /\ i = nticks) => pc = "event"
       /\ checks[i].exit => EventReturned /\ ret = PromptBefore(i)

\* C14 witness: the first tick missed with an event agent designated; the
\* loop slept and the agent is still pending.
C14_Witness ==
  /\ EventHas("agent")
  /\ ticks = <<FALSE>>
  /\ Len(checks) = 1 /\ checks[1].slept
  /\ checks[1].prompt = SeedPrompt
  /\ pc = "event" /\ first_run /\ AgentCalls = {}

\* C14 second witness: a miss after a matched tick left the prompt of that
\* tick in place.
C14_WitnessLater ==
  /\ ticks = <<TRUE, FALSE>>
  /\ Len(checks) = 2 /\ checks[2].slept
  /\ checks[2].prompt = checks[1].prompt
  /\ Len(EventStepCalls) = 1

\* C15: no retry, no swallowing. An exception raised by a step's or the
\* event agent's call propagates out of the run; the failed call is not
\* retried, and no later step and no later tick is executed.
C15_NoRetryNoSwallow ==
  \A k \in DOMAIN calls : calls[k].result = Raised =>
    /\ k = Len(calls) /\ inflight = {}
    /\ pc = "failed" /\ ret = NoneV
    /\ err = IF calls[k].kind = "step" THEN "AgentError" ELSE "EventAgentError"
    /\ context = calls[k].before
    /\ nticks = calls[k].tick
    /\ Len(checks) = IF calls[k].tick = 0 THEN 0 ELSE calls[k].tick - 1

\* C15 witness: a step of the event loop's list raised on the second tick,
\* steps after it in the workflow never ran.
C15_Witness ==
  /\ pc = "failed" /\ err = "AgentError"
  /\ Len(Tpl.steps) > 1
  /\ calls[Len(calls)].result = Raised
  /\ calls[Len(calls)].kind = "step"
  /\ calls[Len(calls)].tick = 2

\* C15 second witness: the event agent raised.
C15_WitnessAgent ==
  /\ pc = "failed" /\ err = "EventAgentError"
  /\ calls[Len(calls)].result = Raised
  /\ EventHas("steps") /\ EventStepCalls = <<>>

\* C16: scenario B (jump back). In the two-step workflow s1, s2, when s1's
\* first result carries next "s1" and its second carries no next, the
\* engine executes s1 exactly twice, the second time with s1's first output
\* as prompt, and then s2 once. The engine imposes no cap of its own: a
\* result's next is followed however often the results name one.
C16_ScenarioB ==
  LET cs == StepCalls(1) IN
  /\ ( /\ Len(Tpl.steps) = 2 /\ NoInputsDeclared
       /\ Len(cs) >= 1 /\ HasPrompt(cs[1]) /\ NextOf(cs[1]) = "s1" ) =>
       /\ cs[1].name = "s1"
       /\ Len(calls) = 1 => pc = "loop" /\ current_step = "s1"
       /\ Len(cs) >= 2 =>
            /\ cs[2].name = "s1" /\ cs[2].args = <<cs[1].result.prompt>>
            /\ (HasPrompt(cs[2]) /\ NextOf(cs[2]) = "") =>
                 /\ Len(calls) = 2 => pc = "loop" /\ current_step = "s2"
                 /\ Len(cs) >= 3 =>
                      /\ cs[3].name = "s2"
                      /\ cs[3].args = <<cs[2].result.prompt>>
                      /\ (HasPrompt(cs[3]) /\ NextOf(cs[3]) = "") =>
                           /\ Len(cs) = 3
                           /\ ntrav = 1 =>
                                /\ pc \notin {"loop", "await_step"}
                                /\ err \notin TraversalErrors
  /\ \A k \in DOMAIN calls :
       ( /\ k = Len(calls) /\ calls[k].kind = "step"
         /\ HasPrompt(calls[k]) /\ NextOf(calls[k]) # "" ) =>
         /\ current_step = NextOf(calls[k])
         /\ pc \in {"loop", "failed"}
         /\ pc = "failed" =>
              err \in {"StopIteration", "MissingInput", "MissingContext"}
         /\ InSeq(NextOf(calls[k]), trSteps) => err # "StopIteration"

\* C16 witness: scenario B has run to its end, s1 twice and s2 once.
C16_Witness ==
  LET cs == StepCalls(1) IN
  /\ Len(Tpl.steps) = 2 /\ NoInputsDeclared
  /\ Len(cs) = 3
  /\ cs[1].name = "s1" /\ NextOf(cs[1]) = "s1"
  /\ cs[2].name = "s1" /\ HasPrompt(cs[2]) /\ NextOf(cs[2]) = ""
  /\ cs[3].name = "s2" /\ HasPrompt(cs[3]) /\ NextOf(cs[3]) = ""
  /\ Returned /\ ret = [final_prompt |-> cs[3].result.prompt]

\* C16 second witness: s1 jumped back to itself twice in a row.
C16_WitnessTwice ==
  LET cs == StepCalls(1) IN
  /\ Len(cs) = 3
  /\ \A i \in 1..3 : cs[i].name = "s1"
  /\ NextOf(cs[1]) = "s1" /\ NextOf(cs[2]) = "s1"

\* C19: prompt override. run(prompt) with a non-empty prompt makes the first
\* step receive that prompt instead of the template prompt; run() with the
\* empty prompt uses workflow.spec.template.prompt.
C19_PromptOverride ==
  ntrav >= 1 =>
    LET expected == IF run_prompt # Empty THEN run_prompt ELSE Hi
        cs == StepCalls(1)
    IN /\ travs[1].initial_prompt = expected
       /\ travs[1].start = Tpl.steps[1].name
       /\ (Len(cs) >= 1 /\ "inputs" \notin DOMAIN Tpl.steps[1]) =>
            /\ cs[1].name = Tpl.steps[1].name
            /\ cs[1].args = <<expected>>
            /\ cs[1].before = [prompt |-> expected]

\* C19 witness: run("go") was called and the first step received "go".
C19_Witness ==
  /\ run_prompt = Go
  /\ Len(calls) >= 1
  /\ calls[1].kind = "step" /\ calls[1].args = <<Go>>
  /\ Answered(calls[1])

\* C19 second witness: run() was called with the empty prompt and the first
\* step received the template prompt.
C19_WitnessTemplate ==
  /\ run_prompt = Empty
  /\ Len(calls) >= 1
  /\ calls[1].kind = "step" /\ calls[1].args = <<Hi>>
  /\ Answered(calls[1])

\* ------------------------------------------------------ history of agents
\* The definition run() was given for position i of agent_defs, as the
\* workflow's author wrote it.
GivenDef(i) == AgentDef(AgentIndex(agent_defs[i].metadata.name))
DefNames == {agent_defs[i].metadata.name : i \in DOMAIN agent_defs}
WantedNames == {Tpl.agents[i] : i \in DOMAIN Tpl.agents}

C18_WitnessRestore ==
  /\ pc # "built" /\ err = "none"
  /\ agent_defs = <<>>
  /\ Len(Tpl.agents) >= 2
  /\ \A n \in WantedNames : agents[n] = store[n]

\* ------------------------------------------------------- the create phase
\* create_agents(defs) and restore_agent(name) against the durable store,
\* starting from an empty store. The history `calls` records the
\* create_agents calls (with the definitions as given) and the
\* restore_agent calls (with what they returned).
CreateNames == {"a1", "a2"}
SpecChoices ==
  { [model |-> "m", instructions |-> "i"],
    [model |-> "m", instructions |-> "i", framework |-> BEEAI],
    [model |-> "m2", instructions |-> "i2", framework |-> "openai"] }
DefOf(name, sp) == [metadata |-> [name |-> name], spec |-> sp]
\* The definition lists handed to create_agents: names are unique keys.
DefLists ==
  {<<DefOf(n, sp)>> : n \in CreateNames, sp \in SpecChoices}
    \cup {<<DefOf("a1", sp1), DefOf("a2", sp2)>> :
            sp1 \in SpecChoices, sp2 \in SpecChoices}

\* save_agent(agent): the store keeps the agent under its name.
save_agent(st, agent) == Put(st, AgentName(agent), agent)
\* restore_agent(name): the stored agent, a lookup error when absent.
restore_agent(st, name) == IF name \in DOMAIN st THEN st[name] ELSE Raised

\* Lines 58-66: the store after the loop of create_agents over defs.
RECURSIVE create_agents(_, _)
create_agents(st, defs) ==
  IF defs = <<>> THEN st
  ELSE create_agents(save_agent(st, NewAgent(WithFramework(Head(defs)))),
                     Tail(defs))

\* No workflow has run: the engine's variables as the constructor of a
\* one-step workflow leaves them.
EngineIdle ==
  /\ workflow = WorkflowDef(1, [i \in 1..MaxSteps |-> "plain"], "none")
  /\ agent_defs = <<>>
  /\ store = EmptyDict
  /\ agents = EmptyDict
  /\ steps = EmptyDict
  /\ context = EmptyDict
  /\ pc = "built"
  /\ err = "none"
  /\ ret = NoneV
  /\ caller = "none"
  /\ trSteps = <<>>
  /\ current_step = "none"
  /\ prompt = NoneV
  /\ first_run = TRUE
  /\ inflight = {}
  /\ calls = <<>>
  /\ travs = <<>>
  /\ ticks = <<>>
  /\ checks = <<>>
  /\ run_prompt = NoneV
  /\ clock = NoneV

InitCreate == EngineIdle /\ memory = NoneV /\ hive = NoneV /\ mcp = NoneV

\* create_agents(defs): every definition gets its framework (in place) and
\* its agent is saved.
CreateAgents ==
  /\ Len(calls) < MaxCalls
  /\ \E defs \in DefLists :
       /\ agent_defs' = [i \in DOMAIN defs |-> WithFramework(defs[i])]
       /\ store' = create_agents(store, defs)
       /\ calls' = Append(calls, [kind |-> "create", defs |-> defs])
  /\ UNCHANGED <<workflow, agents, steps, context, pc, err, ret, caller,
                 trSteps, current_step, prompt, first_run, inflight, travs,
                 ticks, checks, run_prompt, memory, clock,
                 hive, mcp>>

\* restore_agent(name), by a later process.
RestoreAgent ==
  /\ Len(calls) < MaxCalls
  /\ \E name \in CreateNames :
       /\ ret' = restore_agent(store, name)
       /\ calls' = Append(calls, [kind |-> "restore", name |-> name,
                                  result |-> restore_agent(store, name)])
  /\ UNCHANGED <<workflow, agent_defs, agents, steps, context, store, pc, err,
                 caller, trSteps, current_step, prompt, first_run, inflight,
                 travs, ticks, checks, run_prompt, memory, clock,
                 hive, mcp>>

NextCreate == CreateAgents \/ RestoreAgent

SpecCreate == InitCreate /\ [][NextCreate]_vars

\* The create_agents calls before call k that defined `name`, and the
\* definition the latest of them gave for it.
Defining(k, name) ==
  {j \in 1..(k - 1) :
     /\ calls[j].kind = "create"
     /\ \E i \in DOMAIN calls[j].defs : calls[j].defs[i].metadata.name = name}
LatestDef(k, name) ==
  LET ds == calls[Max(Defining(k, name))].defs
  IN ds[CHOOSE i \in DOMAIN ds : ds[i].metadata.name = name]

Messages ==
  { [role |-> "user", text |-> "hi"],
    [role |-> "user", text |-> "hello world!"],
    [role |-> "assistant", text |-> "hi"] }
\* len() of the strings above.
StrLen(str) ==
  CASE str = "user" -> 4
    [] str = "assistant" -> 9
    [] str = "hi" -> 2
    [] str = "hello world!" -> 12

\* Line 43: int((len(msg.role) + len(msg.text)) / 4).
default_estimate(msg) == (StrLen(msg.role) + StrLen(msg.text)) \div 4

\* Line 47: f"{message.role}:{message.text}".
get_message_key(message) == <<message.role, ":", message.text>>

\* Lines 18-23: the memory the constructor builds.
TokenMemory(max_tokens, sync_threshold) ==
  [messages |-> <<>>, tokens_by_message |-> EmptyDict,
   max_tokens |-> max_tokens, sync_threshold |-> sync_threshold]
\* The constructor's arguments: max_tokens None or a limit, sync_threshold
\* the default 0.25 or 0.75 (as a fraction).
MaxTokensChoices == {<<>>, <<4>>}
SyncThresholds == {[num |-> 1, den |-> 4], [num |-> 3, den |-> 4]}

\* Lines 55-57: the sum of the token counts of the map's entries.
RECURSIVE SumCounts(_, _)
SumCounts(tbm, keys) ==
  IF keys = {} THEN 0
  ELSE LET k == CHOOSE x \in keys : TRUE
       IN Get(tbm[k], "tokens_count", 0) + SumCounts(tbm, keys \ {k})
tokens_used(m) == SumCounts(m.tokens_by_message, DOMAIN m.tokens_by_message)

\* llm.tokenize([msg]): a result with its tokens_count, or an exception.
TokenizeOutcomes == {[tokens_count |-> 2], [tokens_count |-> 5], Raised}

\* Lines 65-80: sync over the messages from position i on, the tokenizer
\* answering outcomes[j] for the message at position j.
RECURSIVE SyncFrom(_, _, _, _)
SyncFrom(msgs, tbm, outcomes, i) ==
  IF i > Len(msgs) THEN tbm
  ELSE LET key == get_message_key(msgs[i])
           cache == Get(tbm, key, EmptyDict)
       IN IF Get(cache, "dirty", TRUE)
          THEN SyncFrom(msgs,
                 Put(tbm, key,
                     IF outcomes[i] = Raised
                     THEN [tokens_count |-> default_estimate(msgs[i]),
                           dirty |-> TRUE]
                     ELSE [tokens_count |-> outcomes[i].tokens_count,
                           dirty |-> FALSE]),
                 outcomes, i + 1)
          ELSE SyncFrom(msgs, tbm, outcomes, i + 1)
sync(m, outcomes) ==
  [m EXCEPT !.tokens_by_message = SyncFrom(m.messages, @, outcomes, 1)]

\* Lines 83-88: the list after insert(index, message), index clamped.
InsertAt(msgs, index, message) ==
  LET at == IF index = <<>> THEN Len(msgs)
            ELSE IF index[1] < 0 THEN 0
            ELSE IF index[1] > Len(msgs) THEN Len(msgs) ELSE index[1]
  IN SubSeq(msgs, 1, at) \o <<message>> \o SubSeq(msgs, at + 1, Len(msgs))

\* Lines 97-99: the entries of the map that are dirty.
dirty_count(tbm) ==
  Cardinality({k \in DOMAIN tbm : Get(tbm[k], "dirty", TRUE)})

\* Lines 82-104: add(message, index).
add(m, message, index, outcomes) ==
  LET msgs == InsertAt(m.messages, index, message)
      tbm == Put(m.tokens_by_message, get_message_key(message),
                 [tokens_count |-> default_estimate(message), dirty |-> TRUE])
      m1 == [m EXCEPT !.messages = msgs, !.tokens_by_message = tbm]
  IN IF /\ Len(msgs) > 0
        /\ dirty_count(tbm) * m.sync_threshold.den
             >= m.sync_threshold.num * Len(msgs)
     THEN sync(m1, outcomes)
     ELSE m1

\* Lines 106-113: delete(message): list.remove drops the first equal
\* message and the key's entry is popped; nothing happens when absent.
delete(m, message) ==
  LET found == {i \in DOMAIN m.messages : m.messages[i] = message} IN
  IF found = {} THEN m
  ELSE LET at == Min(found)
           key == get_message_key(message)
       IN [m EXCEPT
             !.messages = SubSeq(@, 1, at - 1) \o SubSeq(@, at + 1, Len(@)),
             !.tokens_by_message = [k \in DOMAIN @ \ {key} |-> @[k]]]

\* Lines 115-117: reset().
reset(m) == [m EXCEPT !.messages = <<>>, !.tokens_by_message = EmptyDict]

InitMemory ==
  /\ EngineIdle
  /\ hive = NoneV
  /\ mcp = NoneV
  /\ \E mt \in MaxTokensChoices, st \in SyncThresholds :
       memory = TokenMemory(mt, st)

engineVars ==
  <<workflow, agent_defs, agents, steps, context, store, pc, err, ret, caller,
    trSteps, current_step, prompt, first_run, inflight, calls, travs, ticks,
    checks, run_prompt, clock>>

Add ==
  /\ Len(memory.messages) < MaxMessages
  /\ \E message \in Messages, index \in {<<>>, <<0>>, <<1>>} :
       \E outcomes \in [1..(Len(memory.messages) + 1) -> TokenizeOutcomes] :
         memory' = add(memory, message, index, outcomes)
  /\ UNCHANGED <<engineVars, hive, mcp>>

Delete ==
  /\ \E message \in Messages : memory' = delete(memory, message)
  /\ UNCHANGED <<engineVars, hive, mcp>>

Sync ==
  /\ \E outcomes \in [1..Len(memory.messages) -> TokenizeOutcomes] :
       memory' = sync(memory, outcomes)
  /\ UNCHANGED <<engineVars, hive, mcp>>

Reset ==
  /\ memory' = reset(memory)
  /\ UNCHANGED <<engineVars, hive, mcp>>

NextMemory == Add \/ Delete \/ Sync \/ Reset

SpecMemory == InitMemory /\ [][NextMemory]_vars

\* C20: TokenMemory respects token limits. When max_tokens is set, after
\* any sequence of add, delete, sync and reset, tokens_used does not exceed
\* max_tokens.
C20_RespectsTokenLimit ==
  memory.max_tokens # <<>> => tokens_used(memory) <= memory.max_tokens[1]

\* C28: after any sequence of add and delete every message held in
\* `messages` has an entry in the token map, so that tokens_used counts it,
\* also when two held messages have the same role and text and one of them
\* is deleted.
C28_EveryMessageCounted ==
  \A i \in DOMAIN memory.messages :
    get_message_key(memory.messages[i]) \in DOMAIN memory.tokens_by_message

\* ------------------------------------------- _process_steps from any step
\* _process_steps(steps, start_step, prompt) called on the whole step list
\* of a workflow without event, with agents built from definitions, from
\* any of its steps.
InitTraverse ==
  /\ Init
  /\ ~HasEvent
  /\ Len(agent_defs) = Len(Tpl.steps)
Traverse ==
  /\ pc = "built"
  /\ \E i \in DOMAIN Tpl.steps :
       LET cr == CreateOrRestore(agent_defs, workflow, agents, store) IN
       /\ agent_defs' = cr.defs
       /\ agents' = cr.agents
       /\ ProcessSteps(workflow, cr.agents, NamesOf(Tpl.steps),
                       Tpl.steps[i].name, Tpl.prompt, "run")
  /\ UNCHANGED <<store, ret, prompt, first_run, inflight, calls, ticks, checks,
                 run_prompt, memory, clock,
                 hive, mcp>>

NextTraverse == Traverse \/ StepBegin \/ StepReturn

SpecTraverse == InitTraverse /\ [][NextTraverse]_vars

\* C22: termination without jumps. If no step result carries `next`, a
\* traversal of n steps that starts at the step with index i invokes
\* exactly the steps from i to the last once each in declaration order and
\* then terminates with the last step's prompt as final_prompt.
C22_TerminatesWithoutJumps ==
  \A t \in DOMAIN travs :
    LET cs == StepCalls(t)
        names == travs[t].names
        i == find_index(names, travs[t].start)
        rest == SubSeq(names, i, Len(names))
    IN (\A k \in DOMAIN cs : ~CarriesNext(cs[k])) =>
         /\ Len(cs) <= Len(rest)
         /\ \A k \in DOMAIN cs : cs[k].name = rest[k]
         /\ (Returned /\ t = ntrav) =>
              /\ Len(cs) = Len(rest)
              /\ ret = [final_prompt |-> cs[Len(cs)].result.prompt]
         /\ (t = ntrav /\ Len(cs) = Len(rest) /\ HasPrompt(cs[Len(cs)])) =>
              Returned

\* C22 witness: a traversal of three steps that started at the second has
\* returned after two invocations.
C22_Witness ==
  /\ ntrav = 1 /\ Len(travs[1].names) = 3 /\ travs[1].start = "s2"
  /\ Len(calls) = 2
  /\ calls[1].name = "s2" /\ calls[2].name = "s3"
  /\ ~CarriesNext(calls[1]) /\ ~CarriesNext(calls[2])
  /\ Returned /\ ret = [final_prompt |-> calls[2].result.prompt]

\* The steps of traversal t that have recorded a prompt so far.
RecordedIn(t) ==
  {calls[j].name : j \in {k \in DOMAIN calls :
     calls[k].kind = "step" /\ calls[k].trav = t /\ HasPrompt(calls[k])}}
\* The steps that recorded a prompt in a traversal before t.
RecordedEarlier(t) == UNION {RecordedIn(u) : u \in 1..(t - 1)}

\* C24: each call of _process_steps starts from a context that holds only
\* the key "prompt": what an earlier traversal recorded (the seed traversal
\* of run() or an earlier event tick) is not visible, so an event-tick step
\* whose inputs or context names a step that ran only in an earlier
\* traversal fails with the missing-key error.
C24_FreshContextPerTraversal ==
  /\ ntrav >= 1 => DOMAIN context = {"prompt"} \cup RecordedIn(ntrav)
  /\ \A t \in DOMAIN travs :
       Len(StepCalls(t)) >= 1 =>
         StepCalls(t)[1].before = [prompt |-> travs[t].initial_prompt]
  /\ \A k \in DOMAIN calls : calls[k].kind = "step" =>
       /\ DOMAIN calls[k].before \subseteq {"prompt"} \cup RecordedIn(calls[k].trav)
       /\ FromKeys(StepDefOf(workflow, calls[k].name))
            \subseteq RecordedIn(calls[k].trav)
  /\ (pc = "failed" /\ err \in {"MissingInput", "MissingContext"}) =>
       /\ FromKeys(StepDefOf(workflow, current_step)) \ RecordedIn(ntrav) # {}
       /\ \A k \in DOMAIN calls : Answered(calls[k])

\* C24 witness: an event tick's step names in its context a step that ran
\* in the seed traversal only, and the tick failed on the missing key.
C24_Witness ==
  /\ ntrav = 2 /\ caller = "event"
  /\ pc = "failed" /\ err = "MissingContext"
  /\ FromKeys(StepDefOf(workflow, current_step)) \subseteq RecordedEarlier(2)
  /\ context = [prompt |-> travs[2].initial_prompt]

\* The agent name step `name` was declared with (before line 150 puts the
\* agent itself in its place).
DeclaredAgent(name) ==
  AgentNames[CHOOSE i \in DOMAIN StepNames : StepNames[i] = name]
\* The steps of traversal t whose declared agent is not in the agents map.
Agentless(t) ==
  {i \in DOMAIN travs[t].names :
     DeclaredAgent(travs[t].names[i]) \notin DOMAIN agents}

\* C27: agent resolution precedes execution. If any step definition in the
\* list passed to _process_steps names an agent that is not in the agents
\* map, _process_steps raises the agent-not-found error before any step of
\* that traversal is invoked, also when the offending step would never be
\* reached.
C27_ResolutionPrecedesExecution ==
  \A t \in DOMAIN travs :
    /\ Agentless(t) # {} =>
         /\ t = ntrav
         /\ pc = "failed" /\ err = "AgentNotFound"
         /\ StepCalls(t) = <<>>
         /\ context = [prompt |-> travs[t].initial_prompt]
    /\ (err = "AgentNotFound" /\ t = ntrav) => Agentless(t) # {}

\* C27 witness: the last of three steps names an agent that was not
\* supplied; the traversal failed before its first step was invoked.
C27_Witness ==
  /\ ntrav = 1 /\ Len(travs[1].names) = 3
  /\ Agentless(1) = {3}
  /\ pc = "failed" /\ err = "AgentNotFound"
  /\ calls = <<>>

\* ------------------------------------------------------------- to_mermaid
\* Mermaid.__to_sequenceDiagram (mermaid.py lines 53-69) on the workflow:
\* the participants and one arrow <<agentL, agentR, step name>> per step,
\* agentR being the next step's agent (the step's own for the last step).
\* Lines 61 and 65 call str.replace on the step's agent, which raises for
\* an agent that is not a str. The names of the model hold no "-", so
\* replace("-", "_") leaves them as they are.
to_mermaid(wf) ==
  LET tpl == wf.spec.template
      ss == tpl.steps
  IN IF \E i \in DOMAIN ss : ~IsStr(ss[i].agent) THEN Raised
     ELSE [participants |-> tpl.agents,
           arrows |-> [i \in DOMAIN ss |->
                         <<ss[i].agent.str,
                           IF i < Len(ss) THEN ss[i + 1].agent.str
                           ELSE ss[i].agent.str,
                           ss[i].name>>]]
\* The workflow with every step's agent field as it was declared.
AsDeclared(wf) ==
  LET ss == wf.spec.template.steps
  IN [wf EXCEPT !.spec.template.steps =
        [i \in DOMAIN ss |->
           [ss[i] EXCEPT !.agent = Str(DeclaredAgent(ss[i].name))]]]

\* C26: Workflow.run does not modify the workflow definition's step list:
\* after a run every step definition's agent field is still the agent name
\* it held before, so to_mermaid returns the same text before and after a
\* run.
C26_RunLeavesStepList ==
  /\ \A i \in DOMAIN Tpl.steps :
       Tpl.steps[i].agent = Str(DeclaredAgent(Tpl.steps[i].name))
  /\ to_mermaid(workflow) = to_mermaid(AsDeclared(workflow))

\* ------------------------------------------------------------ the cron loop
\* process_event with the wall clock kept: workflows of plain steps with an
\* event block, entered at the start or in the second half of a minute.
CronStarts == {0, 1}
CronInputs ==
  {inp \in Inputs : /\ inp[1] = 1
                    /\ inp[3] \in {"steps", "agent_steps", "while_done"}
                    /\ inp[4] = "defs"}
InitCron ==
  /\ InitEngine(CronInputs)
  /\ \E start \in CronStarts : clock = NewClock(start)
SpecCron == InitCron /\ [][Next]_vars

\* The iterations of the event loop whose cron check fell in minute m and
\* that ran the event step list.
FiredIn(m) ==
  {i \in DOMAIN ticks :
     /\ clock.at[i] = m
     /\ \E k \in DOMAIN calls : calls[k].kind = "step" /\ calls[k].tick = i}

\* C25: within one wall-clock minute that matches the cron expression the
\* event step list is run at most once, although the loop polls every 30
\* seconds.
C25_OneFiringPerMinute ==
  clock # NoneV =>
    \A i \in DOMAIN clock.at : Cardinality(FiredIn(clock.at[i])) <= 1

\* ---------------------------------------------------------------- bee-hive
\* bee-hive/bee_hive/workflow.py. `agents` and `steps` are attributes of the
\* class Workflow (lines 16-17): __init__ and _sequence write through
\* self.agents[...] and self.steps[...] into these two dicts, which every
\* instance reads. A dict keeps its keys in the order of their first
\* insertion, so `steps` is a sequence of entries.
MaxInstances == 2

\* Agent(agent_def) of bee-hive's agent.py.
HiveAgent(agent_def) == [agent_def |-> agent_def]
HiveAgentDef(i, model) == [AgentDef(i) EXCEPT !.spec.model = model]
HiveAgentDefs ==
  { <<HiveAgentDef(1, "m"), HiveAgentDef(2, "m")>>,
    <<HiveAgentDef(1, "m0"), HiveAgentDef(2, "m")>>,
    <<HiveAgentDef(2, "m")>> }
HiveStepDef(i, a) == [name |-> StepNames[i], agent |-> Str(AgentNames[a])]
HiveWorkflow(p, ss) ==
  [spec |-> [strategy |-> [type |-> "sequence", output |-> "verbose"],
             template |-> [prompt |-> p, steps |-> ss]]]
HiveWorkflows ==
  { HiveWorkflow(Hi, <<HiveStepDef(1, 1), HiveStepDef(2, 2)>>),
    HiveWorkflow(Go, <<HiveStepDef(2, 2), HiveStepDef(1, 1)>>),
    HiveWorkflow(Go, <<HiveStepDef(3, 2)>>) }

\* The class as the module's import leaves it.
HiveClass ==
  [agents |-> EmptyDict, steps |-> <<>>, inst |-> <<>>, runs |-> <<>>]

\* Lines 25-27: Workflow(agent_defs, workflow).
HiveInit(h, defs, wf) ==
  LET names == {defs[k].metadata.name : k \in DOMAIN defs}
      last(n) == Max({k \in DOMAIN defs : defs[k].metadata.name = n})
  IN [h EXCEPT
        !.agents = [n \in DOMAIN h.agents \cup names |->
                      IF n \in names THEN HiveAgent(defs[last(n)])
                      ELSE h.agents[n]],
        !.inst = Append(h.inst, [agent_defs |-> defs,
                                 declared |-> wf,
                                 workflow |-> wf,
                                 ran |-> FALSE])]

\* Step(step) of bee-hive's step.py, and what its run(prompt) hands back: a
\* mapping with the agent's answer as `prompt`, or a mapping without
\* `prompt`; a step whose agent is None raises.
HiveStep(step) == [step |-> step]
HiveResponses == {"prompt", "bare"}
HiveStepRun(step, p, kind) ==
  IF step.step.agent = NoneV THEN Raised
  ELSE IF kind = "prompt"
       THEN [prompt |-> Str(Append(p.str, AgentName(step.step.agent)))]
       ELSE EmptyDict

\* Lines 47-48: the step definition after its agent is looked up, unless
\* it is falsy (an empty name, None).
HiveResolve(ags, step) ==
  IF step.agent \notin {Str(""), NoneV}
  THEN [step EXCEPT !.agent = IF IsStr(step.agent)
                              THEN Get(ags, step.agent.str, NoneV)
                              ELSE NoneV]
  ELSE step
\* self.steps[name] = step (line 49).
HiveSetStep(entries, name, step) ==
  IF \E k \in DOMAIN entries : entries[k].name = name
  THEN [k \in DOMAIN entries |->
          IF entries[k].name = name THEN [name |-> name, step |-> step]
          ELSE entries[k]]
  ELSE Append(entries, [name |-> name, step |-> step])
\* Lines 46-49: the loop over the workflow's step definitions from the k-th.
RECURSIVE HiveBuild(_, _, _, _)
HiveBuild(ags, defs, entries, k) ==
  IF k > Len(defs) THEN [defs |-> defs, entries |-> entries]
  ELSE LET step == HiveResolve(ags, defs[k])
       IN HiveBuild(ags, [defs EXCEPT ![k] = step],
                    HiveSetStep(entries, step.name, HiveStep(step)), k + 1)
\* Lines 52-55: the loop over self.steps from its k-th entry; a call that
\* raises ends it.
RECURSIVE HiveRunSteps(_, _, _, _, _)
HiveRunSteps(entries, kinds, k, p, done) ==
  IF k > Len(entries) THEN [calls |-> done, ret |-> p]
  ELSE LET response == HiveStepRun(entries[k].step, p, kinds[k])
           call == [name |-> entries[k].name,
                    agent |-> entries[k].step.step.agent,
                    prompt |-> p, response |-> response]
       IN IF response = Raised
          THEN [calls |-> Append(done, call), ret |-> Raised]
          ELSE HiveRunSteps(entries, kinds, k + 1,
                            Get(response, "prompt", p), Append(done, call))

\* Lines 40-63: _sequence() of instance i.
HiveSequence(h, i, kinds) ==
  LET tpl == h.inst[i].workflow.spec.template
      built == HiveBuild(h.agents, tpl.steps, h.steps, 1)
      run == HiveRunSteps(built.entries, kinds, 1, tpl.prompt, <<>>)
  IN [h EXCEPT
        !.steps = built.entries,
        !.inst[i].workflow.spec.template.steps = built.defs,
        !.inst[i].ran = TRUE,
        !.runs = Append(h.runs, [inst |-> i, calls |-> run.calls,
                                 ret |-> run.ret])]

InitHive ==
  /\ EngineIdle
  /\ memory = NoneV
  /\ mcp = NoneV
  /\ hive = HiveClass

NewWorkflow ==
  /\ Len(hive.inst) < MaxInstances
  /\ \E defs \in HiveAgentDefs, wf \in HiveWorkflows :
       hive' = HiveInit(hive, defs, wf)
  /\ UNCHANGED <<engineVars, memory, mcp>>

Sequence ==
  /\ \E i \in DOMAIN hive.inst :
       /\ ~hive.inst[i].ran
       /\ \E kinds \in [1..Len(StepNames) -> HiveResponses] :
            hive' = HiveSequence(hive, i, kinds)
  /\ UNCHANGED <<engineVars, memory, mcp>>

NextHive == NewWorkflow \/ Sequence

SpecHive == InitHive /\ [][NextHive]_vars

\* The step names and agent names an instance was constructed with.
DeclaredSteps(i) == hive.inst[i].declared.spec.template.steps
OwnAgentNames(i) ==
  {hive.inst[i].agent_defs[k].metadata.name : k \in DOMAIN hive.inst[i].agent_defs}
\* Every step of instance i names an agent of the instance's definitions.
HiveWellFormed(i) ==
  \A k \in DOMAIN DeclaredSteps(i) :
    DeclaredSteps(i)[k].agent.str \in OwnAgentNames(i)

\* C21: _sequence runs every declared step exactly once in declaration
\* order, passes the template prompt to the first step and each step's
\* output to the next step, and returns the last step's output as the final
\* prompt.
C21_SequenceInOrder ==
  \A r \in DOMAIN hive.runs :
    LET run == hive.runs[r]
        declared == DeclaredSteps(run.inst)
        out(k) == Get(run.calls[k].response, "prompt", run.calls[k].prompt)
    IN HiveWellFormed(run.inst) =>
         /\ Len(run.calls) = Len(declared)
         /\ \A k \in DOMAIN run.calls :
              /\ run.calls[k].name = declared[k].name
              /\ run.calls[k].prompt =
                   IF k = 1
                   THEN hive.inst[run.inst].declared.spec.template.prompt
                   ELSE out(k - 1)
         /\ run.ret = out(Len(run.calls))

\* C30: two Workflow objects constructed with different agent definitions
\* do not see each other's agents or steps: the agents and steps an
\* instance reads contain only entries built from its own definitions.
C30_InstanceIsolation ==
  \A i \in DOMAIN hive.inst :
    /\ \A n \in DOMAIN hive.agents :
         \E k \in DOMAIN hive.inst[i].agent_defs :
           hive.agents[n] = HiveAgent(hive.inst[i].agent_defs[k])
    /\ hive.inst[i].ran =>
         \A e \in DOMAIN hive.steps :
           \E k \in DOMAIN DeclaredSteps(i) :
             hive.steps[e].name = DeclaredSteps(i)[k].name

\* ------------------------------------------------------------ MCP tools
\* maestro/src/agents/mcp_tools.py. The coroutines of one event loop run one
\* at a time and change hands only at an `await`: each action below is the
\* code between two awaits of one coroutine.
MaxEndpoints == 2
MaxExecs == 1

Endpoints == <<"e1", "e2", "e3", "e4">>
\* A tool an MCP server advertises: its name (empty when missing) and a
\* description that tells the servers' tools of one name apart.
Tool(name, e) == [name |-> name, description |-> e]
\* session.list_tools().tools of the server at endpoint e.
Advertised(e) ==
  CASE e = "e1" -> <<Tool("t1", e), Tool("t2", e)>>
    [] e = "e2" -> <<Tool("", e), Tool("t2", e)>>
    [] OTHER -> <<Tool("t3", e)>>
ToolNames == {"t1", "t2", "t3"}

\* Lines 151-164: _convert_to_openai_tool(tool).
convert_to_openai_tool(tool) ==
  [type |-> "function",
   function |-> [name |-> tool.name, description |-> tool.description,
                 parameters |-> [type |-> "object"]]]

\* Lines 65-74: MCPToolManager(endpoints), with the history of its
\* coroutines: `tasks` (one per _discover_endpoint / execute_tool_streaming
\* call), `open` (the SSE streams and ClientSessions entered and not yet
\* exited), `phase` and `ret` of discover_tools, `dropped` (execute calls for
\* unknown tools).
MCPToolManager(endpoints) ==
  [endpoints |-> endpoints, tools |-> EmptyDict,
   openai_tools_schemas |-> EmptyDict,
   tasks |-> <<>>, open |-> {}, phase |-> "idle", ret |-> Pending,
   dropped |-> 0]

\* The exceptions the handlers tell apart: httpx.RequestError and any other.
Exceptions == {"RequestError", "Exception"}
NewTask(kind, e, name) ==
  [kind |-> kind, endpoint |-> e, tool |-> name, pc |-> "connect",
   exc |-> "none", result |-> Pending, registered |-> {}]

\* Lines 80-81: the two nested context managers entered for task t.
EnterSession(open, t) ==
  open \cup {[task |-> t, res |-> "sse_client"],
             [task |-> t, res |-> "ClientSession"]}
\* The context managers left only when the body ended without exception.
ExitSession_OnSuccess(open, t, exc) ==
  IF exc = "none" THEN {r \in open : r.task # t} ELSE open
\* Lines 80-83 under `async with` (lines 120, 188): leaving the body, by
\* its end, by `return` or by an exception, exits ClientSession and then
\* sse_client.
ExitSession(open, t, exc) == {r \in open : r.task # t}

\* Lines 143-148 and 196-210: what the operation hands to its caller once
\* the session is left: _discover_endpoint re-raises, execute_tool_streaming
\* returns None on any exception and the result mapping otherwise.
Outcome(task) ==
  IF task.kind = "discover"
  THEN IF task.exc = "none" THEN NoneV ELSE [raised |-> task.exc]
  ELSE IF task.exc = "none"
       THEN [status |-> "success", raw_result |-> task.result]
       ELSE NoneV

\* Lines 130-141: the loop over the discovered tools from the k-th, without
\* an await.
RECURSIVE Register(_, _, _, _)
Register(m, t, discovered, k) ==
  IF k > Len(discovered) THEN m
  ELSE LET tool == discovered[k] IN
       IF tool.name = "" THEN Register(m, t, discovered, k + 1)
       ELSE Register(
              [m EXCEPT
                 !.tools = Put(m.tools, tool.name,
                               [tool |-> tool,
                                endpoint |-> m.tasks[t].endpoint]),
                 !.openai_tools_schemas =
                    Put(m.openai_tools_schemas, tool.name,
                        convert_to_openai_tool(tool)),
                 !.tasks[t].registered = m.tasks[t].registered \cup {tool.name}],
              t, discovered, k + 1)

\* asyncio.gather raising the first exception of its tasks.
Gather_Propagating(results) ==
  IF \E k \in DOMAIN results : "raised" \in DOMAIN results[k]
  THEN Raised ELSE NoneV
\* Lines 99-104: gather(..., return_exceptions=True) hands the exceptions
\* back as results, the loop passes over them and discover_tools returns
\* None.
Gather(results) == NoneV

InitMCP ==
  /\ EngineIdle
  /\ memory = NoneV
  /\ hive = NoneV
  /\ \E n \in 0..MaxEndpoints :
       mcp = MCPToolManager(SubSeq(Endpoints, 1, n))

\* Lines 85-98: discover_tools() up to its gather.
DiscoverTools ==
  /\ mcp.phase = "idle"
  /\ IF mcp.endpoints = <<>>
     THEN mcp' = [mcp EXCEPT !.phase = "discovered", !.ret = NoneV]
     ELSE mcp' = [mcp EXCEPT
                    !.phase = "discovering",
                    !.tools = EmptyDict,
                    !.openai_tools_schemas = EmptyDict,
                    !.tasks = mcp.tasks \o
                       [k \in DOMAIN mcp.endpoints |->
                          NewTask("discover", mcp.endpoints[k], "")]]
  /\ UNCHANGED <<engineVars, memory, hive>>

\* Lines 174-188: execute_tool_streaming(tool_name, arguments) up to its
\* session.
ExecuteTool ==
  /\ Cardinality({t \in DOMAIN mcp.tasks : mcp.tasks[t].kind = "execute"})
       + mcp.dropped < MaxExecs
  /\ \E name \in ToolNames :
       IF name \notin DOMAIN mcp.tools
       THEN mcp' = [mcp EXCEPT !.dropped = mcp.dropped + 1]
       ELSE mcp' = [mcp EXCEPT
                      !.tasks = Append(mcp.tasks,
                                  NewTask("execute",
                                          mcp.tools[name].endpoint, name))]
  /\ UNCHANGED <<engineVars, memory, hive>>

\* Lines 80-81: sse_client and ClientSession are entered, or the connection
\* fails before anything is open.
Connect ==
  /\ \E t \in DOMAIN mcp.tasks :
       /\ mcp.tasks[t].pc = "connect"
       /\ \/ mcp' = [mcp EXCEPT !.open = EnterSession(mcp.open, t),
                                !.tasks[t].pc = "initialize"]
          \/ mcp' = [mcp EXCEPT !.tasks[t].pc = "done",
                                !.tasks[t].exc = "RequestError",
                                !.tasks[t].result =
                                   Outcome([mcp.tasks[t] EXCEPT
                                              !.exc = "RequestError"])]
  /\ UNCHANGED <<engineVars, memory, hive>>

\* Line 82: await session.initialize().
Initialize ==
  /\ \E t \in DOMAIN mcp.tasks :
       /\ mcp.tasks[t].pc = "initialize"
       /\ \/ mcp' = [mcp EXCEPT !.tasks[t].pc = "call"]
          \/ \E e \in Exceptions :
               mcp' = [mcp EXCEPT !.tasks[t].pc = "exit", !.tasks[t].exc = e]
  /\ UNCHANGED <<engineVars, memory, hive>>

\* Lines 122-141 and 190-194: the awaited call of the body returns or
\* raises, and the body runs to its end.
Call ==
  /\ \E t \in DOMAIN mcp.tasks :
       /\ mcp.tasks[t].pc = "call"
       /\ \/ \E e \in Exceptions :
               mcp' = [mcp EXCEPT !.tasks[t].pc = "exit", !.tasks[t].exc = e]
          \/ IF mcp.tasks[t].kind = "discover"
             THEN \E discovered \in {Advertised(mcp.tasks[t].endpoint), <<>>} :
                    mcp' = [Register(mcp, t, discovered, 1) EXCEPT
                              !.tasks[t].pc = "exit"]
             ELSE mcp' = [mcp EXCEPT !.tasks[t].pc = "exit",
                                     !.tasks[t].result = Done]
  /\ UNCHANGED <<engineVars, memory, hive>>

\* The `async with` is left and the operation returns or raises.
Exit ==
  /\ \E t \in DOMAIN mcp.tasks :
       /\ mcp.tasks[t].pc = "exit"
       /\ mcp' = [mcp EXCEPT
                    !.open = ExitSession(mcp.open, t, mcp.tasks[t].exc),
                    !.tasks[t].pc = "done",
                    !.tasks[t].result = Outcome(mcp.tasks[t])]
  /\ UNCHANGED <<engineVars, memory, hive>>

\* Lines 99-104: every discovery has ended and discover_tools goes on.
Gathered ==
  /\ mcp.phase = "discovering"
  /\ LET ds == {t \in DOMAIN mcp.tasks : mcp.tasks[t].kind = "discover"} IN
     /\ \A t \in ds : mcp.tasks[t].pc = "done"
     /\ mcp' = [mcp EXCEPT
                  !.phase = "discovered",
                  !.ret = Gather([t \in ds |-> mcp.tasks[t].result])]
  /\ UNCHANGED <<engineVars, memory, hive>>

NextMCP ==
  \/ DiscoverTools
  \/ ExecuteTool
  \/ Connect
  \/ Initialize
  \/ Call
  \/ Exit
  \/ Gathered

SpecMCP == InitMCP /\ [][NextMCP]_vars

\* The operations that have ended, and those that ended with an exception.
Ended == {t \in DOMAIN mcp.tasks : mcp.tasks[t].pc = "done"}
Failed == {t \in Ended : mcp.tasks[t].exc # "none"}

\* C23: every session opened by _discover_endpoint or
\* execute_tool_streaming is closed before that operation returns or
\* raises, on the success path, on a connection error and on any other
\* exception: no session stays open after the operation ends.
C23_SessionsScoped ==
  /\ \A r \in mcp.open : r.task \notin Ended
  /\ \A t \in DOMAIN mcp.tasks :
       mcp.tasks[t].pc \in {"initialize", "call", "exit"} <=>
         \E r \in mcp.open : r.task = t
\* A discovery that entered its session and failed has ended, another has
\* ended well, and an execution has ended with an exception.
C23_Witness ==
  /\ \E t \in Failed : mcp.tasks[t].kind = "discover"
                       /\ mcp.tasks[t].exc = "Exception"
  /\ \E t \in Ended \ Failed : mcp.tasks[t].registered # {}
  /\ \E t \in Failed : mcp.tasks[t].kind = "execute"
                       /\ mcp.tasks[t].exc = "RequestError"

\* C29: after discover_tools() over several endpoints completes, `tools`
\* and `openai_tools_schemas` have the same key set under every
\* interleaving of the per-endpoint discoveries, each registered tool is
\* paired with an endpoint that advertised it, and the failure of one
\* endpoint neither raises out of discover_tools nor removes tools
\* registered from the other endpoints.
C29_ConcurrentDiscovery ==
  mcp.phase = "discovered" =>
    /\ DOMAIN mcp.tools = DOMAIN mcp.openai_tools_schemas
    /\ \A n \in DOMAIN mcp.tools :
         LET e == mcp.tools[n].endpoint IN
         /\ mcp.tools[n].tool.name = n
         /\ \E k \in DOMAIN Advertised(e) : Advertised(e)[k] = mcp.tools[n].tool
         /\ \E k \in DOMAIN mcp.endpoints : mcp.endpoints[k] = e
         /\ mcp.openai_tools_schemas[n].function.description = e
    /\ mcp.ret = NoneV
    /\ \A t \in DOMAIN mcp.tasks :
         mcp.tasks[t].registered \subseteq DOMAIN mcp.tools
\* discover_tools over two endpoints has completed, one discovery having
\* failed and the other having registered its tools.
C29_Witness ==
  /\ mcp.phase = "discovered"
  /\ Len(mcp.endpoints) >= 2
  /\ \E t \in Failed : mcp.tasks[t].kind = "discover"
  /\ \E t \in Ended \ Failed : mcp.tasks[t].registered # {}
\* Both endpoints advertised t2 and the second one's discovery registered
\* it first.
C29_WitnessOverwrite ==
  /\ mcp.phase = "discovered"
  /\ \E t, u \in Ended : /\ t # u
                         /\ "t2" \in mcp.tasks[t].registered
                         /\ "t2" \in mcp.tasks[u].registered
  /\ "t2" \in DOMAIN mcp.tools
  /\ mcp.tools["t2"].endpoint = "e1"

====
